---- MODULE Spec2Model ----
(***************************************************************************)
(* Captcha gateway of TLDR-Bot (src/modules/captcha_verification.py).      *)
(*                                                                         *)
(* The model follows the asyncio execution of the module: a handler runs   *)
(* without interruption up to an `await`, so the on_message coroutine is   *)
(* cut into one action per `await`, the member-join handler is cut at the  *)
(* creation of the text channel, and a pass of unban_task at each unban; a *)
(* platform call takes effect when it is issued.  Handlers whose           *)
(* interleaving no property below depends on (member leave, the countdown  *)
(* body, gateway_reset_task, load) are one action.  A Python exception     *)
(* ends the handler where it is raised and keeps the assignments made      *)
(* before it.                                                              *)
(*                                                                         *)
(* Eleven specifications share the variables:                              *)
(*   Spec           one captcha channel: messages, countdown, restart      *)
(*   SpecGuilds     joins and leaves on two gateway guilds, the blacklist  *)
(*   SpecCountdown  one captcha channel counting down the default ttl      *)
(*   SpecSweep      joins and leaves with the two periodic tasks           *)
(*   SpecFailed     a failed captcha and a rejoin ban, with unban_task     *)
(*   SpecVerified   completed captchas and the join on the main guild      *)
(*   SpecOperators  a member made operator while joining and failing       *)
(*   SpecRouting    events of a guild that is no gateway guild             *)
(*   SpecPresent    members of the main guild on the gateway guilds        *)
(*   SpecPool       load, delete and the invitation to a gateway guild     *)
(*   SpecTracker    invite tracking on the main guild                      *)
(***************************************************************************)
EXTENDS Integers, Sequences, FiniteSets, TLC

\* ------------------------------------------------------------- universe
Guilds == {"g1", "g2"}
Members == {"m1", "m2"}
\* settings["modules"]["captcha"]["operators"] when the module is constructed
Operators == {"m2"}
\* bound: text channels ever created by CaptchaChannel.start, ids 1..MaxChannels
MaxChannels == 3
Channels == 1..MaxChannels
\* bound: text channels created in the behaviours of SpecFailed, SpecVerified and
\* SpecOperators
FailedChannels == 2
\* bound: text channels created in the behaviours of Spec, SpecPool and SpecPresent
SessionChannels == 1
\* invite codes of the main guild
Codes == {"a", "b"}
\* bound: uses of one invite
MaxUses == 2
\* bound: bans and invites of one captcha channel are followed up to this many
MaxCalls == 2
\* bound: member-joined / member-left events waiting for their handler
MaxQueue == 2
\* bound: on_message coroutines of one channel suspended at the same time
MaxTasks == 2
\* bound: the clock (time.time()) runs from 0 to MaxTime
MaxTime == 3
\* bound: countdown ticks followed after the time to live has reached 0
MaxOverrun == 1

\* CaptchaChannel.__init__: self._tries = 5
MaxTries == 5
\* settings: captcha_time_to_live as the module writes it when there are no settings
DefaultTtl == 900
\* settings: captcha_time_to_live, set low
SmallTtl == 2
\* settings: blacklist_length (86400 by default), scaled
BlacklistLength == 3
\* CaptchaChannel.countdown: add_member_to_blacklist(self._member, 900, ...), scaled
ElapsedBlacklist == 1
\* settings: gateway_rejoin.limit (3 by default), scaled
RejoinLimit == 2
\* settings: gateway_rejoin.blacklist_duration (86400 by default), scaled
RejoinBlacklistDuration == 2
\* settings: gateway_rejoin.reset_after_duration (900 by default), scaled
ResetAfterDuration == 2
\* CaptchaChannel.countdown: if self._internal_clock >= 60
ClockPeriod == 60
\* CaptchaChannel.countdown: if self._ttl >= 600
AlertFloor == 600

\* random_chars(6) draws the answer from ascii_lowercase
Answers == {"ab"}
\* what a member may type
Contents == {"ab", "AB", "zz"}
\* str.lower() on the contents
Lower(s) == IF s = "AB" THEN "ab" ELSE s

VARIABLES
  now,                   \* time.time()
  captcha_time_to_live,  \* settings: captcha_time_to_live
  main_guild_landing_channel, \* settings: main_guild_landing_channel is set (not None)
  unban_pass,            \* CaptchaModule.unban_task: the pass that is under way
  operators,             \* settings: operators
  bot_guilds,            \* platform: the guilds of Guilds that exist and have the bot
  other_guilds,          \* platform: how many further guilds the bot is on (main guild too)
  db_guilds,             \* collection captcha_guilds: the guild ids it holds
  crowd,                 \* platform: crowd[g], members of g besides those of Members
  permanent_invite,      \* platform: g has an invite with max_uses = 0 and max_age = 0
  pool_calls,            \* what load, delete and get_invitation_to_gateway ended with
  members,               \* platform: members[g], who is on gateway guild g
  bans,                  \* platform: bans[g], the ban list of gateway guild g
  channels,              \* platform: the captcha text channels that exist
  evq,                   \* platform events (member joined / left) not yet handled
  gateway_guilds,        \* CaptchaModule._gateway_guilds
  captcha_channels,      \* GatewayGuild._captcha_channels: [g][m] -> channel or 0
  chan,                  \* the CaptchaChannel objects in memory, by channel id
  tasks,                 \* suspended on_message coroutines: [c][pc] -> how many
  db_channels,           \* collection captcha_channels, by channel id
  db_blacklist,          \* collection captcha_blacklist, in insertion order
  db_counter,            \* collection captcha_counter, by member id
  calls,                 \* platform calls issued so far, per captcha channel
  channel_limit,         \* how many text channels a behaviour may create
  main_members,          \* platform: who is on the main guild
  invites,               \* platform: uses of each invite of the main guild, -1 if none
  registered_invitations, \* collection captcha_registered_invitations
  invite_cache,          \* TrackerManager._invite_cache: code -> uses, -1 if absent
  temporal_cache,        \* TrackerManager._temporal_cache: code -> temporal entry
  tracker_calls          \* what the tracker did on the platform, and who joined how

gateway_vars == <<now, captcha_time_to_live, main_guild_landing_channel, members, bans, channels, evq,
                  gateway_guilds, captcha_channels, chan, tasks, db_channels,
                  db_blacklist, db_counter, calls>>

tracker_vars == <<main_members, invites, registered_invitations, invite_cache,
                  temporal_cache, tracker_calls>>

pool_vars == <<bot_guilds, other_guilds, db_guilds, crowd, permanent_invite, pool_calls>>

module_vars == <<unban_pass, operators, pool_vars>>

vars == <<gateway_vars, module_vars, channel_limit, tracker_vars>>

\* ------------------------------------------------------------- records
\* create_invite(max_age=120, max_uses=1) in CaptchaChannel.create_tldr_invite
InviteMaxAge == 120
InviteMaxUses == 1
\* self._invite = None
NoInvite == [max_age |-> 0, max_uses |-> 0]
\* CaptchaChannel.create_tldr_invite, with the landing channel of the main guild found
create_tldr_invite == [max_age |-> InviteMaxAge, max_uses |-> InviteMaxUses]

NoChannel == [live |-> FALSE, guild |-> "none", member |-> "none", tries |-> 0,
              ttl |-> 0, internal_clock |-> 0, started |-> FALSE,
              answer_text |-> "none", completed |-> FALSE, invite |-> NoInvite,
              running |-> FALSE, has_channel |-> FALSE]

\* CaptchaChannel.__init__ giving one try less
NewChannel_fewer_tries(g, m) ==
  [live |-> TRUE, guild |-> g, member |-> m, tries |-> MaxTries - 1,
   ttl |-> captcha_time_to_live, internal_clock |-> 0, started |-> FALSE,
   answer_text |-> "none", completed |-> FALSE, invite |-> NoInvite,
   running |-> FALSE, has_channel |-> FALSE]

\* CaptchaChannel.__init__
NewChannel(g, m) == [live |-> TRUE, guild |-> g, member |-> m, tries |-> MaxTries,
                     ttl |-> captcha_time_to_live, internal_clock |-> 0,
                     started |-> FALSE, answer_text |-> "none",
                     completed |-> FALSE, invite |-> NoInvite, running |-> FALSE,
                     has_channel |-> FALSE]

\* no pass of unban_task is under way
NoPass == [running |-> FALSE, blacklist |-> <<>>, now |-> 0, i |-> 0]

NoDoc == [exists |-> FALSE, guild_id |-> "none", member_id |-> "none", tries |-> 0,
          active |-> FALSE, ttl |-> 0, completed |-> FALSE, failed |-> FALSE]

\* DataManager.add_captcha_channel
add_captcha_channel(c) ==
  [exists |-> TRUE, guild_id |-> c.guild, member_id |-> c.member, tries |-> c.tries,
   active |-> c.started, ttl |-> c.ttl, completed |-> FALSE, failed |-> FALSE]

Pcs == {"incorrect", "render", "grace", "invite", "congrats"}
NoTasks == [c \in Channels |-> [pc \in Pcs |-> 0]]

Ev(kind, g, m) == [kind |-> kind, guild |-> g, member |-> m]

\* is_operator answering that nobody is an operator
is_operator_nobody(m) == FALSE

\* is_operator answering that everybody is an operator
is_operator_anybody(m) == TRUE

\* CaptchaModule.is_operator
is_operator(m) == m \in operators

\* is_gateway_guild answering that every guild is a gateway guild
is_gateway_guild_any(g) == TRUE

\* CaptchaModule.is_gateway_guild
is_gateway_guild(g) == g \in gateway_guilds

\* GatewayGuild.has_captcha_channel
has_captcha_channel(g, m) == captcha_channels[g][m] # 0

\* DataManager.get_blacklisted_member_info: find_one({"mid": member_id})
get_blacklisted_member_info(bl, m) == \E i \in 1..Len(bl) : bl[i].mid = m

\* DataManager.add_member_to_blacklist
add_member_to_blacklist(bl, m, duration, reason) ==
  Append(bl, [mid |-> m, started |-> now, ends |-> now + duration, reason |-> reason])

\* DataManager.update_captcha_counter
update_captcha_counter(cnt, m, counter) ==
  IF cnt[m].exists
  THEN [cnt EXCEPT ![m] = [exists |-> TRUE, counter |-> cnt[m].counter + counter,
                           updated_at |-> now]]
  ELSE [cnt EXCEPT ![m] = [exists |-> TRUE, counter |-> counter, updated_at |-> now]]

\* the lowest channel id not used yet (db_channels documents are never deleted)
FreeChannels ==
  {c \in Channels : c <= channel_limit /\ ~db_channels[c].exists /\ ~chan[c].live}
NextChannel == CHOOSE c \in FreeChannels : \A d \in FreeChannels : c <= d

\* a member with a blacklist document whose end time has not elapsed
LiveBlacklisted(m) ==
  \E i \in 1..Len(db_blacklist) : db_blacklist[i].mid = m /\ db_blacklist[i].ends > now

\* Member.ban / Guild.ban on the platform: the ban list gains the member; a member
\* who is on the guild is removed from it, which the bot sees as a member-left event
BanMembers(mem, g, m) == [mem EXCEPT ![g] = @ \ {m}]
BanList(b, g, m) == [b EXCEPT ![g] = @ \cup {m}]
BanEvents(q, mem, g, m) == IF m \in mem[g] THEN Append(q, Ev("leave", g, m)) ELSE q

\* TrackerManager.__init__: self._minimum_member_count = 0
minimum_member_count == 0
\* TrackerManager.__init__: self._member_join_timeout = 0
member_join_timeout == 0

NoEntry == [exists |-> FALSE, started |-> 0, finished |-> 0, uses |-> <<>>]

\* ------------------------------------------------------------- initial state
InitState ==
  /\ now = 0
  /\ members = [g \in Guilds |-> {}]
  /\ bans = [g \in Guilds |-> {}]
  /\ channels = {}
  /\ evq = <<>>
  /\ captcha_channels = [g \in Guilds |-> [m \in Members |-> 0]]
  /\ chan = [c \in Channels |-> NoChannel]
  /\ tasks = NoTasks
  /\ db_channels = [c \in Channels |-> NoDoc]
  /\ db_blacklist = <<>>
  /\ db_counter = [m \in Members |-> [exists |-> FALSE, counter |-> 0, updated_at |-> 0]]
  /\ unban_pass = NoPass
  /\ operators = Operators
  /\ calls = [ban |-> [c \in Channels |-> 0], blacklist |-> [c \in Channels |-> 0],
              invite |-> [c \in Channels |-> 0], alert |-> [c \in Channels |-> <<>>],
              joined_blacklisted |-> {}, no_invite |-> {}, op_role |-> {},
              explained |-> {}]

\* nothing was asked of the pool of gateway guilds yet
NoPoolCalls == [referral |-> "none", delete |-> "none", critical |-> FALSE,
                created |-> {}]

\* every guild of the model is a gateway guild with a document in captcha_guilds, a
\* permanent invite and no members besides those of Members; the bot is on the main
\* guild as well
InitCommon ==
  /\ InitState
  /\ gateway_guilds = Guilds
  /\ bot_guilds = Guilds
  /\ other_guilds = 1
  /\ db_guilds = Guilds
  /\ crowd = [g \in Guilds |-> 0]
  /\ permanent_invite = [g \in Guilds |-> TRUE]
  /\ pool_calls = NoPoolCalls

\* TrackerManager.__init__ and TrackerManager.load, with no invite on the main guild
InitCaches ==
  /\ invites = [code \in Codes |-> -1]
  /\ registered_invitations = {}
  /\ invite_cache = [code \in Codes |-> -1]
  /\ temporal_cache = [code \in Codes |-> NoEntry]
  /\ tracker_calls = [kick |-> [m \in Members |-> 0], dm |-> [m \in Members |-> 0],
                      revoke |-> [code \in Codes |-> 0], unregistered_joins |-> {},
                      unregistered_uses |-> {}]

\* nobody is on the main guild yet
InitTracker ==
  /\ main_members = {}
  /\ InitCaches

Init ==
  /\ InitCommon
  /\ InitTracker
  /\ main_guild_landing_channel \in BOOLEAN
  /\ captcha_time_to_live = SmallTtl
  /\ channel_limit = SessionChannels

\* ------------------------------------------------------------- platform
\* a user joins gateway guild g (the platform refuses a banned user)
member_joins(g, m) ==
  /\ Len(evq) < MaxQueue
  /\ m \notin members[g] /\ m \notin bans[g]
  /\ Cardinality(FreeChannels) > Cardinality({i \in 1..Len(evq) : evq[i].kind = "join"})
  /\ members' = [members EXCEPT ![g] = @ \cup {m}]
  /\ evq' = Append(evq, Ev("join", g, m))
  /\ UNCHANGED <<tracker_vars, module_vars, channel_limit, main_guild_landing_channel,
                 now, captcha_time_to_live, bans, channels, gateway_guilds,
                 captcha_channels, chan, tasks, db_channels, db_blacklist, db_counter,
                 calls>>

\* a member leaves gateway guild g of their own accord
member_leaves(g, m) ==
  /\ Len(evq) < MaxQueue
  /\ m \in members[g]
  /\ members' = [members EXCEPT ![g] = @ \ {m}]
  /\ evq' = Append(evq, Ev("leave", g, m))
  /\ UNCHANGED <<tracker_vars, module_vars, channel_limit, main_guild_landing_channel,
                 now, captcha_time_to_live, bans, channels, gateway_guilds,
                 captcha_channels, chan, tasks, db_channels, db_blacklist, db_counter,
                 calls>>

\* a second of wall-clock time passes
advance_time ==
  /\ now < MaxTime
  /\ now' = now + 1
  /\ UNCHANGED <<tracker_vars, module_vars, channel_limit, main_guild_landing_channel,
                 captcha_time_to_live, members, bans, channels, evq, gateway_guilds,
                 captcha_channels, chan, tasks, db_channels, db_blacklist, db_counter,
                 calls>>

\* ------------------------------------------------------------- CaptchaChannel
\* CaptchaChannel.start() without kwargs once create_text_channel has returned: the
\* text channel is there, the countdown started, the document inserted, the first
\* captcha rendered (construct_embed sets the answer)
start(obj, answer) ==
  [obj EXCEPT !.has_channel = TRUE, !.started = TRUE, !.running = TRUE,
              !.answer_text = answer]

\* ------------------------------------------------------------- GatewayGuild
\* CaptchaModule.on_member_join for a gateway guild and GatewayGuild.on_member_join, up
\* to the await of create_text_channel in CaptchaChannel.start: the CaptchaChannel
\* object is made and registered, its text channel is not there yet
on_member_join(g, m) ==
  /\ evq # <<>> /\ Head(evq) = Ev("join", g, m)
  /\ IF ~is_gateway_guild(g)
     THEN /\ evq' = Tail(evq)
          /\ UNCHANGED <<members, bans, captcha_channels, chan, calls>>
     ELSE IF m \in main_members /\ is_operator(m) = FALSE
     THEN \* the member is on the main guild too: kicked from the gateway guild
          /\ members' = [members EXCEPT ![g] = @ \ {m}]
          /\ evq' = IF m \in members[g] THEN Append(Tail(evq), Ev("leave", g, m))
                    ELSE Tail(evq)
          /\ UNCHANGED <<bans, captcha_channels, chan, calls>>
     ELSE LET blacklist_entry == get_blacklisted_member_info(db_blacklist, m)
              \* if blacklist_entry: await member.ban(...)   (no return follows)
              mem1 == IF blacklist_entry THEN BanMembers(members, g, m) ELSE members
              ban1 == IF blacklist_entry THEN BanList(bans, g, m) ELSE bans
              q1 == IF blacklist_entry THEN BanEvents(Tail(evq), members, g, m)
                    ELSE Tail(evq)
          IN /\ members' = mem1
             /\ bans' = ban1
             /\ evq' = q1
             /\ IF is_operator(m)
                THEN \* member.add_roles(op_roles[0]): GatewayGuild.load has made
                     \* sure of the Operator role; a member who was just banned is
                     \* gone and add_roles raises NotFound
                     /\ calls' = IF blacklist_entry THEN calls
                                 ELSE [calls EXCEPT !.op_role = @ \cup {<<g, m>>}]
                     /\ UNCHANGED <<captcha_channels, chan>>
                ELSE /\ FreeChannels # {}
                     /\ LET c == NextChannel
                        IN /\ captcha_channels' = [captcha_channels EXCEPT ![g][m] = c]
                           /\ chan' = [chan EXCEPT ![c] = NewChannel(g, m)]
                           /\ calls' = IF LiveBlacklisted(m)
                                       THEN [calls EXCEPT !.joined_blacklisted = @ \cup {c}]
                                       ELSE calls
  /\ UNCHANGED <<tracker_vars, module_vars, channel_limit, main_guild_landing_channel,
                 now, captcha_time_to_live, channels, gateway_guilds, tasks,
                 db_channels, db_blacklist, db_counter>>

\* the CaptchaChannel objects suspended in create_text_channel
Starting(c) == chan[c].live /\ ~chan[c].started /\ ~chan[c].has_channel

\* GatewayGuild.on_member_join after create_text_channel returned: the rest of
\* CaptchaChannel.start
on_member_join_start(c) ==
  /\ Starting(c)
  /\ \E answer \in Answers :
       LET obj == start(chan[c], answer)
       IN /\ chan' = [chan EXCEPT ![c] = obj]
          /\ db_channels' = [db_channels EXCEPT ![c] = add_captcha_channel(obj)]
  /\ channels' = channels \cup {c}
  /\ UNCHANGED <<tracker_vars, module_vars, channel_limit, main_guild_landing_channel,
                 now, captcha_time_to_live, members, bans, evq, gateway_guilds,
                 captcha_channels, tasks, db_blacklist, db_counter, calls>>

\* CaptchaModule.on_member_leave, GatewayGuild.on_member_leave and
\* GatewayGuild.delete_captcha_channel
on_member_leave(g, m) ==
  /\ evq # <<>> /\ Head(evq) = Ev("leave", g, m)
  /\ IF ~is_gateway_guild(g) \/ ~has_captcha_channel(g, m)
     THEN /\ evq' = Tail(evq)
          /\ UNCHANGED <<members, bans, channels, captcha_channels, db_blacklist,
                         db_counter>>
     ELSE LET c == captcha_channels[g][m] IN
          IF c \notin channels
          THEN \* captcha_channel.destory(): self._channel is not set while start is
               \* suspended in create_text_channel (AttributeError), and deleting a
               \* deleted channel raises NotFound: the handler ends there
               /\ evq' = Tail(evq)
               /\ UNCHANGED <<members, bans, channels, captcha_channels, db_blacklist,
                              db_counter>>
          ELSE LET cnt1 == IF ~is_operator(m)
                           THEN update_captcha_counter(db_counter, m, 1)
                           ELSE db_counter
                   over == /\ cnt1[m].exists
                           /\ cnt1[m].counter >= RejoinLimit
                           /\ ~is_operator(m)
                   \* for ban in bans: if ban.user.id == member.id: return
                   act == over /\ m \notin bans[g]
               IN /\ channels' = channels \ {c}
                  /\ captcha_channels' = [captcha_channels EXCEPT ![g][m] = 0]
                  /\ db_counter' = cnt1
                  /\ db_blacklist' =
                       IF act
                       THEN add_member_to_blacklist(db_blacklist, m,
                                                    RejoinBlacklistDuration, "rejoin")
                       ELSE db_blacklist
                  /\ bans' = IF act THEN BanList(bans, g, m) ELSE bans
                  /\ members' = IF act THEN BanMembers(members, g, m) ELSE members
                  /\ evq' = IF act THEN BanEvents(Tail(evq), members, g, m)
                            ELSE Tail(evq)
  /\ UNCHANGED <<tracker_vars, module_vars, channel_limit, main_guild_landing_channel,
                 now, captcha_time_to_live, gateway_guilds, chan, tasks, db_channels,
                 calls>>

\* DataManager.update_captcha_channel: $set on the matching document, if there is one
update_captcha_channel(docs, c, f, v) ==
  IF docs[c].exists THEN [docs EXCEPT ![c][f] = v] ELSE docs

\* the update of the failure path: {"active": False, "stats": {False, True}}
update_failed(docs, c) ==
  IF docs[c].exists
  THEN [docs EXCEPT ![c].active = FALSE, ![c].completed = FALSE, ![c].failed = TRUE]
  ELSE docs

\* the update of the success path: {"active": False, "stats": {True, False}, "ttl": 0}
update_completed(docs, c) ==
  IF docs[c].exists
  THEN [docs EXCEPT ![c].active = FALSE, ![c].completed = TRUE, ![c].failed = FALSE,
                    ![c].ttl = 0]
  ELSE docs

\* the captcha channel a message typed by a member reaches: the one the gateway
\* guild holds for the author, while its text channel exists
message_target(c) ==
  /\ chan[c].live
  /\ c \in channels
  /\ chan[c].guild \in gateway_guilds
  /\ captcha_channels[chan[c].guild][chan[c].member] = c
  /\ chan[c].member \in members[chan[c].guild]

\* the on_message coroutines of channel c that are suspended
InFlight(c) ==
  tasks[c]["incorrect"] + tasks[c]["render"] + tasks[c]["grace"] + tasks[c]["invite"]
    + tasks[c]["congrats"]

Suspend(c, pc) == [tasks EXCEPT ![c][pc] = @ + 1]
Resume(c, pc) == [tasks EXCEPT ![c][pc] = @ - 1]
Move(c, from, to) == [tasks EXCEPT ![c][from] = @ - 1, ![c][to] = @ + 1]

\* CaptchaChannel.on_message up to its first await
on_message(c, content) ==
  /\ message_target(c)
  /\ InFlight(c) < MaxTasks
  /\ IF chan[c].started = FALSE \/ chan[c].answer_text = "none"
     THEN UNCHANGED <<tasks, calls>>
     ELSE IF Lower(content) # chan[c].answer_text
          THEN \* await self._channel.send("Incorrect.")
               /\ tasks' = Suspend(c, "incorrect")
               /\ UNCHANGED calls
          ELSE IF ~main_guild_landing_channel
          THEN \* create_tldr_invite finds no landing channel and calls
               \* self._logger(...), which raises TypeError: on_message ends
               /\ calls' = IF chan[c].tries > 0 /\ ~chan[c].completed
                           THEN [calls EXCEPT !.no_invite = @ \cup {c}]
                           ELSE calls
               /\ UNCHANGED tasks
          ELSE \* self._invite = await self.create_tldr_invite()
               /\ calls.invite[c] < MaxCalls
               /\ tasks' = Suspend(c, "invite")
               /\ calls' = [calls EXCEPT !.invite[c] = @ + 1]
  /\ UNCHANGED <<tracker_vars, module_vars, channel_limit, main_guild_landing_channel,
                 now, captcha_time_to_live, members, bans, channels, evq,
                 gateway_guilds, captcha_channels, chan, db_channels, db_blacklist,
                 db_counter>>

\* on_message after send("Incorrect."): the try is counted, the document updated and
\* send_captcha_message called (a new captcha while tries are left, else the failure
\* embed); sending to a deleted channel raises and ends the coroutine
on_message_incorrect(c) ==
  /\ tasks[c]["incorrect"] > 0
  /\ LET tries1 == IF chan[c].tries > 0 THEN chan[c].tries - 1 ELSE 0 IN
     /\ db_channels' = update_captcha_channel(db_channels, c, "tries", tries1)
     /\ \E answer \in Answers :
          chan' = [chan EXCEPT ![c].tries = tries1,
                               ![c].answer_text = IF tries1 # 0 THEN answer ELSE @]
     /\ tasks' = IF c \in channels THEN Move(c, "incorrect", "render")
                 ELSE Resume(c, "incorrect")
     \* send_captcha_message with no try left sends the failed-captcha embed
     /\ calls' = IF tries1 = 0 /\ c \in channels
                 THEN [calls EXCEPT !.explained = @ \cup {c}]
                 ELSE calls
  /\ UNCHANGED <<tracker_vars, module_vars, channel_limit, main_guild_landing_channel,
                 now, captcha_time_to_live, members, bans, channels, evq,
                 gateway_guilds, captcha_channels, db_blacklist, db_counter>>

\* on_message after send_captcha_message: if self._tries == 0: await asyncio.sleep(10)
on_message_render(c) ==
  /\ tasks[c]["render"] > 0
  /\ tasks' = IF chan[c].tries = 0 THEN Move(c, "render", "grace")
              ELSE Resume(c, "render")
  /\ UNCHANGED <<tracker_vars, module_vars, channel_limit, main_guild_landing_channel,
                 now, captcha_time_to_live, members, bans, channels, evq,
                 gateway_guilds, captcha_channels, chan, db_channels, db_blacklist,
                 db_counter, calls>>

\* on_message after the sleep: the document is closed as failed and, unless the member
\* is an operator, the member is blacklisted for blacklist_length and banned
on_message_grace(c) ==
  /\ tasks[c]["grace"] > 0
  /\ calls.ban[c] < MaxCalls
  /\ tasks' = Resume(c, "grace")
  /\ db_channels' = update_failed(db_channels, c)
  /\ LET g == chan[c].guild
         m == chan[c].member
     IN IF is_operator(m) = FALSE
        THEN /\ db_blacklist' =
                  add_member_to_blacklist(db_blacklist, m, BlacklistLength, "failed")
             /\ bans' = BanList(bans, g, m)
             /\ members' = BanMembers(members, g, m)
             /\ evq' = BanEvents(evq, members, g, m)
             /\ calls' = [calls EXCEPT !.blacklist[c] = @ + 1, !.ban[c] = @ + 1]
        ELSE UNCHANGED <<db_blacklist, bans, members, evq, calls>>
  /\ UNCHANGED <<tracker_vars, module_vars, channel_limit, main_guild_landing_channel,
                 now, captcha_time_to_live, channels, gateway_guilds, captcha_channels,
                 chan, db_counter>>

\* on_message after create_tldr_invite: the invite is kept, the captcha is completed
\* and the congratulation sent
on_message_invite(c) ==
  /\ tasks[c]["invite"] > 0
  /\ chan' = [chan EXCEPT ![c].invite = create_tldr_invite, ![c].completed = TRUE]
  /\ tasks' = IF c \in channels THEN Move(c, "invite", "congrats")
              ELSE Resume(c, "invite")
  \* the completed-captcha embed with the invite
  /\ calls' = IF c \in channels THEN [calls EXCEPT !.explained = @ \cup {c}] ELSE calls
  /\ UNCHANGED <<tracker_vars, module_vars, channel_limit, main_guild_landing_channel,
                 now, captcha_time_to_live, members, bans, channels, evq,
                 gateway_guilds, captcha_channels, db_channels, db_blacklist,
                 db_counter>>

\* on_message after the congratulation: the document is closed as completed
on_message_congrats(c) ==
  /\ tasks[c]["congrats"] > 0
  /\ tasks' = Resume(c, "congrats")
  /\ db_channels' = update_completed(db_channels, c)
  /\ UNCHANGED <<tracker_vars, module_vars, channel_limit, main_guild_landing_channel,
                 now, captcha_time_to_live, members, bans, channels, evq,
                 gateway_guilds, captcha_channels, chan, db_blacklist, db_counter,
                 calls>>

\* alert() in countdown: .replace("{time_value}", time_value) is given an int
\* (math.floor(...) or self._ttl), and str.replace raises TypeError on it
alert_raises == TRUE

\* the time-elapsed embed of countdown: .replace("{time_value}", time_value) is
\* given an int as well
time_elapsed_raises == TRUE

\* timers.loop after its body raised: modules/timers.py decides whether the loop goes
\* on; both outcomes are followed
loop_after_error == {TRUE, FALSE}

\* minutes in [10, 5, 4, 3, 2, 1], with minutes = self._ttl / 60
MinuteMark(ttl) == ttl % 60 = 0 /\ (ttl \div 60) \in {10, 5, 4, 3, 2, 1}
\* self._ttl in [30, 15, 10, 5]
SecondMark(ttl) == ttl \in {30, 15, 10, 5}
\* how many times alert() is called in a tick that leaves ttl: both tests sit under
\* if self._ttl >= 600
AlertsDue(ttl) ==
  IF ttl >= AlertFloor
  THEN (IF MinuteMark(ttl) THEN 1 ELSE 0) + (IF SecondMark(ttl) THEN 1 ELSE 0)
  ELSE 0

\* CaptchaChannel.countdown, one run of the loop body
countdown(c) ==
  /\ chan[c].live /\ chan[c].running
  /\ chan[c].ttl > -MaxOverrun
  /\ LET ttl1 == chan[c].ttl - 1
         clk1 == chan[c].internal_clock + 1
         save == clk1 >= ClockPeriod
         \* self._channel.id of a channel object that is None raises AttributeError
         save_raises == save /\ ~chan[c].has_channel
         docs1 == IF save /\ ~save_raises
                  THEN update_captcha_channel(db_channels, c, "ttl", ttl1)
                  ELSE db_channels
         clk2 == IF save /\ ~save_raises THEN 0 ELSE clk1
         due == AlertsDue(ttl1)
         alert_fails == due > 0 /\ (alert_raises \/ c \notin channels)
         log1 == IF due > 0 /\ ~alert_fails
                 THEN [calls EXCEPT !.alert[c] =
                         IF due = 1 THEN Append(@, ttl1) ELSE Append(Append(@, ttl1), ttl1)]
                 ELSE calls
         elapsed == ttl1 <= 0
         elapsed_fails == elapsed /\ (time_elapsed_raises \/ c \notin channels)
         g == chan[c].guild
         m == chan[c].member
     IN IF save_raises \/ alert_fails \/ elapsed_fails
        THEN /\ \E goes_on \in loop_after_error :
                  chan' = [chan EXCEPT ![c].ttl = ttl1, ![c].internal_clock = clk2,
                                       ![c].running = goes_on]
             /\ db_channels' = docs1
             /\ calls' = log1
             /\ UNCHANGED <<members, bans, channels, evq, db_blacklist>>
        ELSE IF ~elapsed
        THEN /\ chan' = [chan EXCEPT ![c].ttl = ttl1, ![c].internal_clock = clk2]
             /\ db_channels' = docs1
             /\ calls' = log1
             /\ UNCHANGED <<members, bans, channels, evq, db_blacklist>>
        ELSE \* the time-elapsed message, countdown.stop(), the document closed as
             \* failed, the ban and the blacklist entry of 900 s, destory()
             /\ chan' = [chan EXCEPT ![c].ttl = ttl1, ![c].internal_clock = clk2,
                                     ![c].running = FALSE]
             /\ db_channels' =
                  [update_failed(docs1, c) EXCEPT ![c].ttl = IF docs1[c].exists THEN 0 ELSE @]
             /\ channels' = channels \ {c}
             /\ IF is_operator(m) = FALSE
                THEN /\ bans' = BanList(bans, g, m)
                     /\ members' = BanMembers(members, g, m)
                     /\ evq' = BanEvents(evq, members, g, m)
                     /\ db_blacklist' =
                          add_member_to_blacklist(db_blacklist, m, ElapsedBlacklist, "elapsed")
                     /\ calls' = [log1 EXCEPT !.blacklist[c] = @ + 1, !.ban[c] = @ + 1,
                                              !.explained = @ \cup {c}]
                ELSE /\ calls' = [log1 EXCEPT !.explained = @ \cup {c}]
                     /\ UNCHANGED <<bans, members, evq, db_blacklist>>
  /\ UNCHANGED <<tracker_vars, module_vars, channel_limit, main_guild_landing_channel,
                 now, captcha_time_to_live, gateway_guilds, captcha_channels, tasks,
                 db_counter>>

\* ------------------------------------------------------------- CaptchaModule.load
\* the order in which the gateway guild documents come back from the collection
GuildOrder == <<"g1", "g2">>

\* CaptchaChannel.start(member_id=, tries=, completed=, channel_id=, ttl=) on a fresh
\* CaptchaChannel: kwargs.get("tries") and kwargs.get("ttl") are falsy for 0, and
\* then the values of __init__ stay
start_kwargs(g, entry, channel_found, answer) ==
  [NewChannel(g, entry.member_id) EXCEPT
     !.has_channel = channel_found,
     !.tries = IF entry.tries # 0 THEN entry.tries ELSE MaxTries,
     !.ttl = IF entry.ttl # 0 THEN entry.ttl ELSE captcha_time_to_live,
     !.started = TRUE,
     !.running = TRUE,
     \* send_captcha_message is reached only if the "Bot started." embed was sent
     !.answer_text = IF channel_found THEN answer ELSE "none"]

\* the body of load's loop over the documents of guild g, for document c.
\* st = [chan, reg, docs, channels, ok, guilds, members, evq]; ok is FALSE once an
\* exception left load
load_entry(st, g, c, answer) ==
  LET entry == st.docs[c] IN
  IF ~st.ok \/ ~entry.exists \/ entry.guild_id # g THEN st
  ELSE IF entry.member_id \notin st.members[g]
  THEN \* the member is gone: the document is closed with stats.completed True and
       \* the text channel deleted if it is still there
       [st EXCEPT !.docs = update_completed(@, c), !.channels = @ \ {c}]
  ELSE IF entry.active = FALSE THEN st
  ELSE IF entry.completed /\ entry.member_id \in main_members
  THEN \* start: if kwargs.get("completed") and the member is on the main guild, the
       \* member is kicked and start returns before the countdown is started; load
       \* then adds the captcha channel to the gateway guild
       [st EXCEPT !.chan[c] = [NewChannel(g, entry.member_id) EXCEPT
                                 !.has_channel = c \in st.channels,
                                 !.tries = IF entry.tries # 0 THEN entry.tries
                                           ELSE MaxTries],
                  !.reg[g][entry.member_id] = c,
                  !.members[g] = @ \ {entry.member_id},
                  !.evq = Append(@, Ev("leave", g, entry.member_id))]
  ELSE IF c \notin st.channels
  THEN \* guild.get_channel gave None: self._channel.send raises AttributeError
       \* after the countdown was started, and the exception leaves load
       [st EXCEPT !.chan[c] = start_kwargs(g, entry, FALSE, answer), !.ok = FALSE]
  ELSE [st EXCEPT !.chan[c] = start_kwargs(g, entry, TRUE, answer),
                  !.reg[g][entry.member_id] = c]

RECURSIVE load_entries(_, _, _, _)
load_entries(st, g, c, answer) ==
  IF c > MaxChannels THEN st
  ELSE load_entries(load_entry(st, g, c, answer), g, c + 1, answer)

\* the order of guild.members
MemberOrder == <<"m1", "m2">>

\* GatewayGuild.load, for member in self._guild.members: a member who is no operator
\* and is on the main guild is kicked
RECURSIVE load_kick(_, _, _)
load_kick(st, g, i) ==
  IF i > Len(MemberOrder) THEN st
  ELSE LET m == MemberOrder[i] IN
       load_kick(IF m \in st.members[g] /\ ~is_operator(m) /\ m \in main_members
                 THEN [st EXCEPT !.members[g] = @ \ {m},
                                 !.evq = Append(@, Ev("leave", g, m))]
                 ELSE st,
                 g, i + 1)

\* load: the documents of captcha_guilds whose guild the bot can get
valid_guild_ids == {g \in db_guilds : g \in bot_guilds}

\* len(self._bot.guilds)
bot_guild_count == Cardinality(bot_guilds) + other_guilds

\* if len(self._bot.guilds) >= 10 in load
GuildCeiling == 10

\* the ids the platform can give to a guild it creates: never used before
FreshGuilds ==
  {g \in Guilds : /\ g \notin bot_guilds /\ g \notin db_guilds /\ g \notin gateway_guilds
                  /\ \A c \in Channels : db_channels[c].guild_id # g}

\* load's loop over the valid gateway guilds: GatewayGuild.load, then the documents
\* of the guild; a guild joins _gateway_guilds after its documents were gone through
RECURSIVE load_guilds(_, _, _)
load_guilds(st, i, answer) ==
  IF i > Len(GuildOrder) \/ ~st.ok THEN st
  ELSE IF GuildOrder[i] \notin valid_guild_ids THEN load_guilds(st, i + 1, answer)
  ELSE LET st1 == load_entries(load_kick(st, GuildOrder[i], 1), GuildOrder[i], 1, answer)
       IN load_guilds(IF st1.ok THEN [st1 EXCEPT !.guilds = @ \cup {GuildOrder[i]}]
                      ELSE st1,
                      i + 1, answer)

\* the process is restarted: what was in memory is gone, events of the meantime are
\* not delivered, and CaptchaModule.load rebuilds the gateway guilds and the captcha
\* channels from the documents.  With no valid gateway guild, load creates one
\* (create_guild) unless the bot is on 10 guilds or more, which is a critical error
restart ==
  /\ IF valid_guild_ids = {}
     THEN /\ IF bot_guild_count >= GuildCeiling
             THEN /\ pool_calls' = [NoPoolCalls EXCEPT !.critical = TRUE]
                  /\ gateway_guilds' = {}
                  /\ UNCHANGED <<bot_guilds, db_guilds, permanent_invite, crowd>>
             ELSE \E g \in FreshGuilds :
                    \* create_guild: the guild is created from the template, its
                    \* document added and the GatewayGuild appended
                    /\ bot_guilds' = bot_guilds \cup {g}
                    /\ db_guilds' = db_guilds \cup {g}
                    /\ gateway_guilds' = {g}
                    /\ permanent_invite' = [permanent_invite EXCEPT ![g] = FALSE]
                    /\ crowd' = [crowd EXCEPT ![g] = 0]
                    /\ pool_calls' = [NoPoolCalls EXCEPT !.created = {g}]
          /\ chan' = [c \in Channels |-> NoChannel]
          /\ captcha_channels' = [g \in Guilds |-> [m \in Members |-> 0]]
          /\ evq' = <<>>
          /\ UNCHANGED <<db_channels, channels, members>>
     ELSE /\ \E answer \in Answers :
               LET st0 == [chan |-> [c \in Channels |-> NoChannel],
                           reg |-> [g \in Guilds |-> [m \in Members |-> 0]],
                           docs |-> db_channels, channels |-> channels, ok |-> TRUE,
                           guilds |-> {}, members |-> members, evq |-> <<>>]
                   st == load_guilds(st0, 1, answer)
               IN /\ chan' = st.chan
                  /\ captcha_channels' = st.reg
                  /\ db_channels' = st.docs
                  /\ channels' = st.channels
                  /\ gateway_guilds' = st.guilds
                  /\ members' = st.members
                  /\ evq' = st.evq
          /\ pool_calls' = NoPoolCalls
          /\ UNCHANGED <<bot_guilds, db_guilds, permanent_invite, crowd>>
  /\ tasks' = NoTasks
  /\ unban_pass' = NoPass
  /\ UNCHANGED <<operators, other_guilds>>
  /\ UNCHANGED <<tracker_vars, channel_limit, main_guild_landing_channel,
                 now, captcha_time_to_live, bans, db_blacklist, db_counter,
                 calls>>

\* ------------------------------------------------------------- the gateway guilds
\* GatewayGuild.get_user_count: len(self._guild.members)
get_user_count(g) == Cardinality(members[g]) + crowd[g]

\* if g_guild.get_user_count() < 500 in get_invitation_to_gateway
UserCap == 500

\* get_invitation_to_gateway over the guilds of _gateway_guilds from position i on:
\* the first guild with fewer than 500 members decides, with its permanent invite or
\* with None when it has none; Guild.invites() of a guild that was deleted raises
RECURSIVE get_invitation_from(_)
get_invitation_from(i) ==
  IF i > Len(GuildOrder) THEN "none"
  ELSE LET g == GuildOrder[i] IN
       IF g \in gateway_guilds /\ get_user_count(g) < UserCap
       THEN IF g \notin bot_guilds THEN "raised"
            ELSE IF permanent_invite[g] THEN g ELSE "none"
       ELSE get_invitation_from(i + 1)

\* CaptchaModule.get_invitation_to_gateway
get_invitation_to_gateway ==
  /\ pool_calls' = [pool_calls EXCEPT !.referral = get_invitation_from(1)]
  /\ UNCHANGED <<gateway_vars, tracker_vars, channel_limit, unban_pass, operators,
                 bot_guilds, other_guilds, db_guilds, crowd, permanent_invite>>

\* GatewayGuild.delete: the document is removed first; Guild.delete may be refused
\* (HTTPException, Forbidden), and delete then returns False.  When the guild was
\* deleted, rm_gateway_guild_from_cache(self) compares guild ids with the
\* GatewayGuild object, removes nothing and returns None, and `await None` raises
\* TypeError, which the except clause does not catch
delete(g) ==
  /\ g \in gateway_guilds
  /\ db_guilds' = db_guilds \ {g}
  /\ \E refused \in BOOLEAN :
       IF refused \/ g \notin bot_guilds
       THEN /\ pool_calls' = [pool_calls EXCEPT !.delete = "false"]
            /\ UNCHANGED <<bot_guilds, members, channels>>
       ELSE /\ bot_guilds' = bot_guilds \ {g}
            /\ members' = [members EXCEPT ![g] = {}]
            /\ channels' = {c \in channels : chan[c].guild # g}
            /\ pool_calls' = [pool_calls EXCEPT !.delete = "raised"]
  /\ UNCHANGED <<tracker_vars, channel_limit, unban_pass, operators, other_guilds,
                 crowd, permanent_invite, now, captcha_time_to_live,
                 main_guild_landing_channel, bans, evq, gateway_guilds,
                 captcha_channels, chan, tasks, db_channels, db_blacklist, db_counter,
                 calls>>

\* members who are not modelled one by one join gateway guild g or leave it
crowd_changes(g) ==
  /\ g \in bot_guilds
  /\ \E n \in {0, UserCap - 1, UserCap} : n # crowd[g] /\ crowd' = [crowd EXCEPT ![g] = n]
  /\ UNCHANGED <<gateway_vars, tracker_vars, channel_limit, unban_pass, operators,
                 bot_guilds, other_guilds, db_guilds, permanent_invite, pool_calls>>

\* somebody creates a permanent invite on guild g, or deletes the one it has
invite_changes(g) ==
  /\ g \in bot_guilds
  /\ permanent_invite' = [permanent_invite EXCEPT ![g] = ~@]
  /\ UNCHANGED <<gateway_vars, tracker_vars, channel_limit, unban_pass, operators,
                 bot_guilds, other_guilds, db_guilds, crowd, pool_calls>>

\* ------------------------------------------------------------- TrackerManager
\* DataManager.is_registered_invitation: Collection.find(...) is a Cursor whatever the
\* collection holds, and a Cursor is not None
is_registered_invitation(code) == TRUE

\* TrackerManager.create_temporal_entry
create_temporal_entry ==
  [exists |-> TRUE, started |-> now, finished |-> now + member_join_timeout,
   uses |-> <<>>]

\* on_member_join, the loop over the invites: a code the cache does not hold is put
\* in with its current uses; a cached code is only compared, its count stays
seed_cache(inv, cache) ==
  [code \in Codes |-> IF inv[code] # -1 /\ cache[code] = -1 THEN inv[code]
                      ELSE cache[code]]

\* the invites the loop may leave in invite_used: those whose uses exceed the cached
\* count (the last of them in the order of the platform's list)
invite_used(inv, cache) ==
  {code \in Codes : inv[code] # -1 /\ cache[code] # -1 /\ inv[code] > cache[code]}

\* in the loop over entry["uses"]: get_invitation_to_gateway() is a coroutine
\* function called without await, so invite.url raises AttributeError
referral_raises == TRUE

\* the loop over entry["uses"] of a detected attack, from position i on.
\* st = [main, kick, dm, ok]; get_member gives None for a member who left, and
\* e_member.dm_channel then raises
RECURSIVE attack_loop(_, _, _)
attack_loop(uses, i, st) ==
  IF i > Len(uses) \/ ~st.ok THEN st
  ELSE IF uses[i] \notin st.main \/ referral_raises
  THEN [st EXCEPT !.ok = FALSE]
  ELSE attack_loop(uses, i + 1,
                   [st EXCEPT !.main = @ \ {uses[i]}, !.dm[uses[i]] = @ + 1,
                              !.kick[uses[i]] = @ + 1])

\* Guild.kick of the members who completed a captcha, in CaptchaModule.on_member_join
\* for the main guild. st = [members, evq, ok]; kicking someone who is not on the
\* guild raises NotFound
RECURSIVE kick_completed(_, _, _)
kick_completed(st, i, m) ==
  IF i > Len(GuildOrder) \/ ~st.ok THEN st
  ELSE LET g == GuildOrder[i] IN
       IF g \in gateway_guilds /\ has_captcha_channel(g, m)
          /\ chan[captcha_channels[g][m]].completed
       THEN IF m \in st.members[g]
            THEN kick_completed([st EXCEPT !.members[g] = @ \ {m},
                                           !.evq = Append(@, Ev("leave", g, m))],
                                i + 1, m)
            ELSE [st EXCEPT !.ok = FALSE]
       ELSE kick_completed(st, i + 1, m)

\* a user joins the main guild through invite `code`; CaptchaModule.on_member_join
\* for the main guild and TrackerManager.on_member_join
main_on_member_join(m, code) ==
  /\ m \notin main_members
  /\ invites[code] # -1 /\ invites[code] < MaxUses
  /\ LET inv1 == [invites EXCEPT ![code] = @ + 1]
         main1 == main_members \cup {m}
         cache1 == seed_cache(inv1, invite_cache)
         log1 == IF code \notin registered_invitations
                 THEN [tracker_calls EXCEPT !.unregistered_joins = @ \cup {m},
                                            !.unregistered_uses = @ \cup {code}]
                 ELSE tracker_calls
         kicks == kick_completed([members |-> members, evq |-> evq, ok |-> TRUE], 1, m)
     IN /\ invite_cache' = cache1
        /\ IF invite_used(inv1, invite_cache) = {}
           THEN \* "Couldn't determine which invite member ... joined with."
                /\ invites' = inv1
                /\ main_members' = main1
                /\ tracker_calls' = log1
                /\ members' = kicks.members
                /\ evq' = kicks.evq
                /\ UNCHANGED temporal_cache
           ELSE \E used \in invite_used(inv1, invite_cache) :
                IF is_registered_invitation(used)
                THEN /\ invites' = inv1
                     /\ main_members' = main1
                     /\ tracker_calls' = log1
                     /\ members' = kicks.members
                     /\ evq' = kicks.evq
                     /\ UNCHANGED temporal_cache
                ELSE LET entry0 == IF temporal_cache[used].exists
                                   THEN temporal_cache[used] ELSE create_temporal_entry
                         entry == [entry0 EXCEPT !.uses = Append(@, m)]
                         temp1 == [temporal_cache EXCEPT ![used] = entry]
                         loop == attack_loop(entry.uses, 1,
                                             [main |-> main1, kick |-> log1.kick,
                                              dm |-> log1.dm, ok |-> TRUE])
                     IN IF entry.finished <= now
                        THEN IF Len(entry.uses) >= minimum_member_count
                             THEN IF loop.ok
                                  THEN \* every member was messaged and kicked: the
                                       \* entry is removed and the invite deleted
                                       /\ temporal_cache' = [temp1 EXCEPT ![used] = NoEntry]
                                       /\ invites' = [inv1 EXCEPT ![used] = -1]
                                       /\ main_members' = loop.main
                                       /\ tracker_calls' =
                                            [log1 EXCEPT !.kick = loop.kick, !.dm = loop.dm,
                                                         !.revoke[used] = @ + 1]
                                       /\ members' = kicks.members
                                       /\ evq' = kicks.evq
                                  ELSE \* the exception leaves both handlers
                                       /\ temporal_cache' = temp1
                                       /\ invites' = inv1
                                       /\ main_members' = loop.main
                                       /\ tracker_calls' =
                                            [log1 EXCEPT !.kick = loop.kick, !.dm = loop.dm]
                                       /\ UNCHANGED <<members, evq>>
                             ELSE /\ temporal_cache' = temp1
                                  /\ invites' = inv1
                                  /\ main_members' = main1
                                  /\ tracker_calls' = log1
                                  /\ members' = kicks.members
                                  /\ evq' = kicks.evq
                        ELSE \* elif entry["finished"] > time.time(): the entry is removed
                             /\ temporal_cache' = [temp1 EXCEPT ![used] = NoEntry]
                             /\ invites' = inv1
                             /\ main_members' = main1
                             /\ tracker_calls' = log1
                             /\ members' = kicks.members
                             /\ evq' = kicks.evq
  /\ UNCHANGED <<module_vars, channel_limit, now, captcha_time_to_live,
                 main_guild_landing_channel, bans, channels, gateway_guilds,
                 captcha_channels, chan, tasks, db_channels, db_blacklist, db_counter,
                 calls, registered_invitations>>

\* a member leaves the main guild
main_member_leaves(m) ==
  /\ m \in main_members
  /\ main_members' = main_members \ {m}
  /\ UNCHANGED <<gateway_vars, module_vars, channel_limit, invites,
                 registered_invitations, invite_cache, temporal_cache, tracker_calls>>

\* an invite is created on the main guild; TrackerManager.on_invite_create
on_invite_create(code) ==
  /\ invites[code] = -1
  /\ invites' = [invites EXCEPT ![code] = 0]
  /\ invite_cache' = [invite_cache EXCEPT ![code] = 0]
  /\ UNCHANGED <<gateway_vars, module_vars, channel_limit, main_members,
                 registered_invitations, temporal_cache, tracker_calls>>

\* an invite of the main guild is deleted; TrackerManager.on_invite_delete:
\* del self._temporal_cache[invite.id] raises KeyError when the code has no temporal
\* entry, and the invite cache is then left as it was
on_invite_delete(code) ==
  /\ invites[code] # -1
  /\ invites' = [invites EXCEPT ![code] = -1]
  /\ IF temporal_cache[code].exists
     THEN /\ temporal_cache' = [temporal_cache EXCEPT ![code] = NoEntry]
          /\ invite_cache' = [invite_cache EXCEPT ![code] = -1]
     ELSE UNCHANGED <<temporal_cache, invite_cache>>
  /\ UNCHANGED <<gateway_vars, module_vars, channel_limit, main_members,
                 registered_invitations, tracker_calls>>

\* DataManager.add_registered_invitation
add_registered_invitation(code) ==
  /\ code \notin registered_invitations
  /\ registered_invitations' = registered_invitations \cup {code}
  /\ UNCHANGED <<gateway_vars, module_vars, channel_limit, main_members, invites,
                 invite_cache, temporal_cache, tracker_calls>>

\* DataManager.remove_registered_invitation
remove_registered_invitation(code) ==
  /\ code \in registered_invitations
  /\ registered_invitations' = registered_invitations \ {code}
  /\ UNCHANGED <<gateway_vars, module_vars, channel_limit, main_members, invites,
                 invite_cache, temporal_cache, tracker_calls>>

\* CaptchaModule.set_operator: the member is added to the operators, or removed
\* from them when already one
set_operator(m) ==
  /\ operators' = IF m \in operators THEN operators \ {m} ELSE operators \cup {m}
  /\ UNCHANGED <<gateway_vars, tracker_vars, channel_limit, unban_pass, pool_vars>>

\* ------------------------------------------------------------- periodic tasks
\* DataManager.get_blacklist: list(find()), the documents in insertion order
get_blacklist == db_blacklist

\* DataManager.remove_member_from_blacklist: delete_one({"mid": member_id}) deletes the
\* first document of the member
RECURSIVE remove_member_from_blacklist(_, _)
remove_member_from_blacklist(bl, m) ==
  IF bl = <<>> THEN <<>>
  ELSE IF Head(bl).mid = m THEN Tail(bl)
  ELSE <<Head(bl)>> \o remove_member_from_blacklist(Tail(bl), m)

\* reset_captcha_counter taking one off the counter
reset_captcha_counter_by_one(cnt, m) == [cnt EXCEPT ![m].counter = @ - 1]

\* DataManager.reset_captcha_counter: $set {"counter": 0}
reset_captcha_counter(cnt, m) == [cnt EXCEPT ![m].counter = 0]

\* DataManager.get_captcha_counters
get_captcha_counters == {m \in Members : db_counter[m].exists}

\* CaptchaModule.unban: the member is taken off the ban list of every gateway guild
unban(b, m) == [g \in Guilds |-> IF g \in gateway_guilds THEN b[g] \ {m} ELSE b[g]]

\* unban_task, for entry in blacklist: the next entry after position i of the list
\* read at the start of the pass with entry["ends"] <= now, 0 when there is none
RECURSIVE next_elapsed(_, _, _)
next_elapsed(bl, t, i) ==
  IF i >= Len(bl) THEN 0
  ELSE IF bl[i + 1].ends <= t THEN i + 1
  ELSE next_elapsed(bl, t, i + 1)

\* CaptchaModule.unban_task from the start of a pass to its first `await self.unban`:
\* the blacklist and the time are read once.  With no elapsed entry the pass goes on
\* to settings[...]["gateway_rejoin"]["cooldown"], a key the settings written by the
\* module do not have: the pass ends there with a KeyError
unban_task ==
  /\ ~unban_pass.running
  /\ LET blacklist == get_blacklist
         k == next_elapsed(blacklist, now, 0)
     IN IF k = 0
        THEN UNCHANGED <<unban_pass, bans>>
        ELSE /\ bans' = unban(bans, blacklist[k].mid)
             /\ unban_pass' = [running |-> TRUE, blacklist |-> blacklist,
                               now |-> now, i |-> k]
  /\ UNCHANGED <<tracker_vars, operators, pool_vars, channel_limit,
                 main_guild_landing_channel, now,
                 captcha_time_to_live, members, channels, evq, gateway_guilds,
                 captcha_channels, chan, tasks, db_channels, db_blacklist, db_counter,
                 calls>>

\* CaptchaModule.unban_task after `await self.unban` returned: the entry's member is
\* removed from the blacklist, and the loop goes on to the next elapsed entry of the
\* list or to the KeyError after the loop
unban_task_resume ==
  /\ unban_pass.running
  /\ LET entry == unban_pass.blacklist[unban_pass.i]
         k == next_elapsed(unban_pass.blacklist, unban_pass.now, unban_pass.i)
     IN /\ db_blacklist' = remove_member_from_blacklist(db_blacklist, entry.mid)
        /\ IF k = 0
           THEN /\ unban_pass' = NoPass
                /\ UNCHANGED bans
           ELSE /\ bans' = unban(bans, unban_pass.blacklist[k].mid)
                /\ unban_pass' = [unban_pass EXCEPT !.i = k]
  /\ UNCHANGED <<tracker_vars, operators, pool_vars, channel_limit,
                 main_guild_landing_channel, now,
                 captcha_time_to_live, members, channels, evq, gateway_guilds,
                 captcha_channels, chan, tasks, db_channels, db_counter, calls>>

\* self._bot.get_config() of gateway_reset_task: the configuration of the bot, with
\* the reset-after duration of the rejoin counters
bot_get_config == [reset_after_duration |-> ResetAfterDuration]

\* CaptchaModule.gateway_reset_task: one pass, without an await
gateway_reset_task ==
  /\ db_counter' =
       [m \in Members |->
          IF /\ m \in get_captcha_counters
             /\ db_counter[m].updated_at + bot_get_config.reset_after_duration <= now
          THEN reset_captcha_counter(db_counter, m)[m]
          ELSE db_counter[m]]
  /\ UNCHANGED <<tracker_vars, module_vars, channel_limit, main_guild_landing_channel,
                 now, captcha_time_to_live, members, bans, channels, evq,
                 gateway_guilds, captcha_channels, chan, tasks, db_channels,
                 db_blacklist, calls>>

\* ------------------------------------------------------------- specifications
\* the gateway guilds with one member who is no operator
Next ==
  \/ \E g \in Guilds : member_joins(g, "m1")
  \/ \E g \in Guilds : member_leaves(g, "m1")
  \/ \E g \in Guilds : on_member_join(g, "m1")
  \/ \E c \in Channels : on_member_join_start(c)
  \/ \E g \in Guilds : on_member_leave(g, "m1")
  \/ \E c \in Channels, content \in Contents : on_message(c, content)
  \/ \E c \in Channels : on_message_incorrect(c)
  \/ \E c \in Channels : on_message_render(c)
  \/ \E c \in Channels : on_message_grace(c)
  \/ \E c \in Channels : on_message_invite(c)
  \/ \E c \in Channels : on_message_congrats(c)
  \/ \E c \in Channels : countdown(c)
  \/ restart

Spec == Init /\ [][Next]_vars

\* joining and leaving two gateway guilds while time passes; member m1 may be on
\* the main guild already
InitGuilds ==
  /\ InitCommon
  /\ InitCaches
  /\ main_members \in {{}, {"m1"}}
  /\ main_guild_landing_channel = TRUE
  /\ captcha_time_to_live = DefaultTtl
  /\ channel_limit = MaxChannels

NextGuilds ==
  \/ \E g \in Guilds, m \in Members : member_joins(g, m)
  \/ \E g \in Guilds, m \in Members : member_leaves(g, m)
  \/ \E g \in Guilds, m \in Members : on_member_join(g, m)
  \/ \E c \in Channels : on_member_join_start(c)
  \/ \E g \in Guilds, m \in Members : on_member_leave(g, m)
  \/ advance_time

SpecGuilds == InitGuilds /\ [][NextGuilds]_vars

\* one captcha channel counting down the default time to live
InitCountdown ==
  /\ InitCommon
  /\ InitTracker
  /\ main_guild_landing_channel = TRUE
  /\ captcha_time_to_live = DefaultTtl
  /\ channel_limit = SessionChannels

NextCountdown ==
  \/ member_joins("g1", "m1")
  \/ on_member_join("g1", "m1")
  \/ \E c \in Channels : on_member_join_start(c)
  \/ \E c \in Channels : countdown(c)
  \/ restart

SpecCountdown == InitCountdown /\ [][NextCountdown]_vars

\* one member joining and leaving two gateway guilds while time passes and the
\* periodic tasks run
InitSweep ==
  /\ InitCommon
  /\ InitTracker
  /\ main_guild_landing_channel = TRUE
  /\ captcha_time_to_live = DefaultTtl
  /\ channel_limit = MaxChannels

NextSweep ==
  \/ \E g \in Guilds : member_joins(g, "m1")
  \/ \E g \in Guilds : member_leaves(g, "m1")
  \/ \E g \in Guilds : on_member_join(g, "m1")
  \/ \E c \in Channels : on_member_join_start(c)
  \/ \E g \in Guilds : on_member_leave(g, "m1")
  \/ advance_time
  \/ unban_task
  \/ unban_task_resume
  \/ gateway_reset_task

SpecSweep == InitSweep /\ [][NextSweep]_vars

\* one member who answers the captchas of two gateway guilds, joins the main guild and
\* is kicked from the gateway guilds
InitVerified ==
  /\ InitCommon
  /\ InitTracker
  /\ main_guild_landing_channel = TRUE
  /\ captcha_time_to_live = DefaultTtl
  /\ channel_limit = FailedChannels

NextVerified ==
  \/ \E g \in Guilds : member_joins(g, "m1")
  \/ \E g \in Guilds : member_leaves(g, "m1")
  \/ \E g \in Guilds : on_member_join(g, "m1")
  \/ \E c \in Channels : on_member_join_start(c)
  \/ \E g \in Guilds : on_member_leave(g, "m1")
  \/ \E c \in Channels : on_message(c, "ab")
  \/ \E c \in Channels : on_message_invite(c)
  \/ \E c \in Channels : on_message_congrats(c)
  \/ \E code \in Codes : on_invite_create(code)
  \/ \E code \in Codes : main_on_member_join("m1", code)
  \/ main_member_leaves("m1")

SpecVerified == InitVerified /\ [][NextVerified]_vars

\* one member on two gateway guilds who fails the captcha of one of them, while time
\* passes and unban_task runs
InitFailed ==
  /\ InitCommon
  /\ InitTracker
  /\ main_guild_landing_channel = TRUE
  /\ captcha_time_to_live = DefaultTtl
  /\ channel_limit = FailedChannels

NextFailed ==
  \/ \E g \in Guilds : member_joins(g, "m1")
  \/ member_leaves("g2", "m1")
  \/ \E g \in Guilds : on_member_join(g, "m1")
  \/ \E c \in Channels : on_member_join_start(c)
  \/ \E g \in Guilds : on_member_leave(g, "m1")
  \/ \E c \in Channels : chan[c].guild = "g1" /\ on_message(c, "zz")
  \/ \E c \in Channels : on_message_incorrect(c)
  \/ \E c \in Channels : on_message_render(c)
  \/ \E c \in Channels : on_message_grace(c)
  \/ advance_time
  \/ unban_task
  \/ unban_task_resume

SpecFailed == InitFailed /\ [][NextFailed]_vars

\* a member of one gateway guild who is made an operator or ceases to be one, while
\* joining, failing the captcha and leaving
InitOperators ==
  /\ InitCommon
  /\ InitTracker
  /\ main_guild_landing_channel = TRUE
  /\ captcha_time_to_live = DefaultTtl
  /\ channel_limit = FailedChannels

NextOperators ==
  \/ member_joins("g1", "m1")
  \/ member_leaves("g1", "m1")
  \/ on_member_join("g1", "m1")
  \/ \E c \in Channels : on_member_join_start(c)
  \/ on_member_leave("g1", "m1")
  \/ \E c \in Channels : on_message(c, "zz")
  \/ \E c \in Channels : on_message_incorrect(c)
  \/ \E c \in Channels : on_message_render(c)
  \/ \E c \in Channels : on_message_grace(c)
  \/ set_operator("m1")

SpecOperators == InitOperators /\ [][NextOperators]_vars

\* the bot is on gateway guild g1 and on g2, a guild that is no gateway guild and not
\* the main guild; members join and leave both
InitRouting ==
  /\ InitState
  /\ InitTracker
  /\ gateway_guilds = {"g1"}
  /\ bot_guilds = Guilds
  /\ other_guilds = 1
  /\ db_guilds = {"g1"}
  /\ crowd = [g \in Guilds |-> 0]
  /\ permanent_invite = [g \in Guilds |-> TRUE]
  /\ pool_calls = NoPoolCalls
  /\ main_guild_landing_channel = TRUE
  /\ captcha_time_to_live = DefaultTtl
  /\ channel_limit = FailedChannels

NextRouting ==
  \/ \E g \in Guilds, m \in Members : member_joins(g, m)
  \/ \E g \in Guilds, m \in Members : member_leaves(g, m)
  \/ \E g \in Guilds, m \in Members : on_member_join(g, m)
  \/ \E c \in Channels : on_member_join_start(c)
  \/ \E g \in Guilds, m \in Members : on_member_leave(g, m)

SpecRouting == InitRouting /\ [][NextRouting]_vars

\* members who are on the main guild already, operators or not, come to the gateway
\* guilds, and the process may be restarted with them there
InitPresent ==
  /\ InitCommon
  /\ InitCaches
  /\ main_members \in SUBSET Members
  /\ main_guild_landing_channel = TRUE
  /\ captcha_time_to_live = DefaultTtl
  /\ channel_limit = SessionChannels

NextPresent ==
  \/ \E g \in Guilds, m \in Members : member_joins(g, m)
  \/ \E g \in Guilds, m \in Members : member_leaves(g, m)
  \/ \E g \in Guilds, m \in Members : on_member_join(g, m)
  \/ \E c \in Channels : on_member_join_start(c)
  \/ \E g \in Guilds, m \in Members : on_member_leave(g, m)
  \/ restart

SpecPresent == InitPresent /\ [][NextPresent]_vars

\* the pool of gateway guilds: the module is constructed, nothing is loaded yet; the
\* bot may be on guilds of earlier runs and on further guilds
InitPool ==
  /\ InitState
  /\ InitTracker
  /\ gateway_guilds = {}
  /\ bot_guilds \in SUBSET Guilds
  /\ db_guilds \in SUBSET Guilds
  /\ other_guilds \in {1, GuildCeiling - 1, GuildCeiling}
  /\ crowd \in [Guilds -> {0, UserCap}]
  /\ \A g \in Guilds : g \notin bot_guilds => crowd[g] = 0
  /\ permanent_invite \in [Guilds -> BOOLEAN]
  /\ \A g \in Guilds : g \notin bot_guilds => ~permanent_invite[g]
  /\ pool_calls = NoPoolCalls
  /\ main_guild_landing_channel = TRUE
  /\ captcha_time_to_live = DefaultTtl
  /\ channel_limit = SessionChannels

NextPool ==
  \/ restart
  \/ get_invitation_to_gateway
  \/ \E g \in Guilds : delete(g)
  \/ \E g \in Guilds : crowd_changes(g)
  \/ \E g \in Guilds : invite_changes(g)

SpecPool == InitPool /\ [][NextPool]_vars

\* the invites of the main guild and who joins through them
NextTracker ==
  \/ \E m \in Members, code \in Codes : main_on_member_join(m, code)
  \/ \E m \in Members : main_member_leaves(m)
  \/ \E code \in Codes : on_invite_create(code)
  \/ \E code \in Codes : on_invite_delete(code)
  \/ \E code \in Codes : add_registered_invitation(code)
  \/ \E code \in Codes : remove_registered_invitation(code)
  \/ advance_time

SpecTracker == Init /\ [][NextTracker]_vars

\* ------------------------------------------------------------- properties
\* C1 (SpecGuilds): a member whose blacklist entry has not ended when
\* GatewayGuild.on_member_join runs gets no captcha channel: no channel was ever
\* created and registered for a member who was blacklisted at that moment
C1_BlacklistedJoinNoSession == calls.joined_blacklisted = {}

\* C2 (SpecTracker): with the join timeout and the minimum member count the tracker
\* is built with (both 0) an entry closes on its first join, so every member who
\* joined through an unregistered invite has been direct-messaged and kicked once
\* and the invite they used has been revoked once
C2_BurstKickedAndRevoked ==
  /\ \A m \in tracker_calls.unregistered_joins :
       tracker_calls.dm[m] = 1 /\ tracker_calls.kick[m] = 1
  /\ \A code \in tracker_calls.unregistered_uses : tracker_calls.revoke[code] = 1

\* C3 (Spec): the tries of a captcha channel stay within 0..5 and no step, the
\* rebuilding of the channel by load included, raises them
C3_TriesNeverIncrease ==
  [][\A c \in Channels :
       (chan[c].live /\ chan'[c].live)
         => (chan'[c].tries \in 0..MaxTries /\ chan'[c].tries <= chan[c].tries)]_vars

\* C4 (Spec): a run of the countdown takes exactly 1 from ttl, and no countdown runs
\* on a captcha channel that is completed or whose document is closed
C4_TickOnlyWhileActive ==
  [][\A c \in Channels :
       countdown(c)
         => /\ chan'[c].ttl = chan[c].ttl - 1
            /\ ~chan[c].completed
            /\ db_channels[c].active]_vars

\* the values of ttl at which a reminder is due: whole minutes 10, 5, 4, 3, 2, 1 and
\* seconds 30, 15, 10, 5
ReminderMarks == {t \in 1..DefaultTtl : MinuteMark(t) \/ SecondMark(t)}

\* C5 (SpecCountdown): while a captcha channel counts down from the default time to
\* live, every reminder mark its ttl has reached was announced exactly once, and
\* nothing else was announced
C5_OneReminderPerMark ==
  \A c \in Channels :
    (chan[c].live /\ chan[c].running)
      => /\ \A t \in ReminderMarks :
              chan[c].ttl <= t
                => Cardinality({i \in 1..Len(calls.alert[c]) : calls.alert[c][i] = t}) = 1
         /\ \A i \in 1..Len(calls.alert[c]) : calls.alert[c][i] \in ReminderMarks

\* C6 (SpecGuilds): a member has at most one blacklist entry for crossing the rejoin
\* limit, however many leaves follow the one that crossed it
C6_OneRejoinEntry ==
  \A m \in Members :
    Cardinality({i \in 1..Len(db_blacklist) :
                   db_blacklist[i].mid = m /\ db_blacklist[i].reason = "rejoin"}) <= 1

\* a member with a blacklist entry for crossing the rejoin limit that has not ended
LiveRejoinEntry(m) ==
  \E i \in 1..Len(db_blacklist) :
    /\ db_blacklist[i].mid = m
    /\ db_blacklist[i].reason = "rejoin"
    /\ db_blacklist[i].ends > now

\* C7 (SpecGuilds): a leave adds a rejoin entry, lasting the configured duration, only
\* when it brings the counter to the limit, and the member is banned with it; a join
\* handled while that entry is live ends in a ban and no new captcha channel
C7_RejoinEscalation ==
  [][\A g \in Guilds, m \in Members :
       /\ (on_member_leave(g, m) /\ db_blacklist' # db_blacklist)
            => /\ db_counter'[m].counter >= RejoinLimit
               /\ db_blacklist'[Len(db_blacklist')].ends = now + RejoinBlacklistDuration
               /\ m \in bans'[g]
       /\ (on_member_leave(g, m) /\ db_counter' # db_counter
            /\ db_counter'[m].counter = RejoinLimit)
            => LiveRejoinEntry(m)'
       /\ (on_member_join(g, m) /\ LiveRejoinEntry(m))
            => /\ m \in bans'[g]
               /\ captcha_channels' = captcha_channels
               /\ channels' = channels]_vars

\* C8 (Spec): a captcha channel bans its member at most once and adds at most one
\* blacklist entry for them
C8_AtMostOneBan ==
  \A c \in Channels : calls.ban[c] <= 1 /\ calls.blacklist[c] <= 1

\* C9 (Spec): a completed captcha channel never bans or blacklists afterwards, and a
\* captcha channel whose tries are 0 never creates an invite afterwards
C9_OneTerminalState ==
  [][\A c \in Channels :
       /\ (chan[c].live /\ chan[c].completed)
            => (calls'.ban[c] = calls.ban[c] /\ calls'.blacklist[c] = calls.blacklist[c])
       /\ (chan[c].live /\ chan[c].tries = 0)
            => calls'.invite[c] = calls.invite[c]]_vars

\* C10 (Spec): a message to a captcha channel that is completed or closed starts
\* nothing, so a captcha channel creates at most one invite
C10_AtMostOneInvite == \A c \in Channels : calls.invite[c] <= 1

\* C11 (Spec): once the wrong answers of a member who is no operator have closed the
\* document as failed, the member is banned and has a blacklist entry lasting
\* blacklist_length, and when the leave that the ban causes has been handled the
\* captcha channel is destroyed: text channel gone, countdown stopped, no longer
\* registered
C11_ExhaustedIsDestroyed ==
  \A c \in Channels :
    (chan[c].live /\ db_channels[c].failed /\ ~is_operator(chan[c].member))
      => /\ chan[c].tries = 0
         /\ chan[c].member \in bans[chan[c].guild]
         /\ \E i \in 1..Len(db_blacklist) :
              /\ db_blacklist[i].mid = chan[c].member
              /\ db_blacklist[i].ends - db_blacklist[i].started = BlacklistLength
         /\ (evq = <<>> /\ InFlight(c) = 0)
              => /\ c \notin channels
                 /\ ~chan[c].running
                 /\ captcha_channels[chan[c].guild][chan[c].member] # c

\* C12 (Spec): every matching answer that a started captcha channel with tries left
\* and not yet completed receives leads on to the invite of 120 s and one use and
\* to the completion of the channel: on_message never ends before them
C12_MatchAlwaysCompletes == calls.no_invite = {}

\* C13 (Spec): a registered captcha channel, neither completed nor out of tries,
\* whose ttl has reached 0 has stopped its countdown and lost its text channel; its
\* member, unless an operator, is banned and has a blacklist entry lasting
\* blacklist_length, and an operator is neither banned nor blacklisted
C13_ExpiredIsClosed ==
  \A c \in Channels :
    (/\ chan[c].live /\ chan[c].ttl <= 0
     /\ ~chan[c].completed /\ chan[c].tries > 0
     /\ captcha_channels[chan[c].guild][chan[c].member] = c)
      => /\ ~chan[c].running
         /\ c \notin channels
         /\ IF is_operator(chan[c].member)
            THEN calls.ban[c] = 0 /\ calls.blacklist[c] = 0
            ELSE /\ chan[c].member \in bans[chan[c].guild]
                 /\ calls.blacklist[c] = 1
                 /\ \E i \in 1..Len(db_blacklist) :
                      /\ db_blacklist[i].mid = chan[c].member
                      /\ db_blacklist[i].ends - db_blacklist[i].started = BlacklistLength

\* C14 (SpecGuilds): for a member and a gateway guild at most one captcha channel
\* object has its countdown running or its text channel in existence
C14_OneSessionPerMember ==
  \A g \in Guilds, m \in Members :
    Cardinality({c \in Channels :
                   /\ chan[c].live /\ chan[c].guild = g /\ chan[c].member = m
                   /\ (chan[c].running \/ c \in channels)}) <= 1

\* C15 as stated (SpecGuilds): the join of every member who is no operator and has no
\* blacklist document, handled by a gateway guild, registers a new captcha channel
\* object for the member with tries 5 and ttl the configured captcha_time_to_live
C15_AnyJoinStartsSession ==
  [][\A g \in Guilds, m \in Members :
       (/\ on_member_join(g, m)
        /\ is_gateway_guild(g) /\ ~is_operator(m)
        /\ ~get_blacklisted_member_info(db_blacklist, m))
         => /\ captcha_channels'[g][m] \in Channels
            /\ ~chan[captcha_channels'[g][m]].live
            /\ chan'[captcha_channels'[g][m]].live
            /\ chan'[captcha_channels'[g][m]].tries = MaxTries
            /\ chan'[captcha_channels'[g][m]].ttl = captcha_time_to_live]_vars

\* C15 (SpecGuilds): the join of a member who is no operator, has no blacklist
\* document and is not on the main guild, handled by a gateway guild, registers a new
\* captcha channel object for the member with tries 5 and ttl the configured
\* captcha_time_to_live; when its text channel is created it is started with a
\* captcha rendered and the countdown running, tries and ttl as before, and one new
\* document is inserted: active, tries and ttl as in memory, stats not completed,
\* not failed; the other documents stay as they are
C15_JoinStartsSession ==
  [][/\ \A g \in Guilds, m \in Members :
         (/\ on_member_join(g, m)
          /\ is_gateway_guild(g) /\ ~is_operator(m) /\ m \notin main_members
          /\ ~get_blacklisted_member_info(db_blacklist, m))
           => LET c == captcha_channels'[g][m] IN
              /\ c \in Channels /\ ~chan[c].live /\ ~db_channels[c].exists
              /\ chan'[c].live /\ chan'[c].guild = g /\ chan'[c].member = m
              /\ chan'[c].tries = MaxTries
              /\ chan'[c].ttl = captcha_time_to_live
              /\ ~chan'[c].completed
              /\ ~chan'[c].started /\ ~chan'[c].has_channel /\ ~chan'[c].running
     /\ \A c \in Channels :
         on_member_join_start(c)
           => /\ c \in channels' /\ ~db_channels[c].exists
              /\ chan'[c].started /\ chan'[c].running /\ ~chan'[c].completed
              /\ chan'[c].tries = MaxTries
              /\ chan'[c].ttl = captcha_time_to_live
              /\ chan'[c].answer_text \in Answers
              /\ db_channels'[c] = [exists |-> TRUE, guild_id |-> chan[c].guild,
                                     member_id |-> chan[c].member,
                                     tries |-> MaxTries, active |-> TRUE,
                                     ttl |-> captcha_time_to_live,
                                     completed |-> FALSE, failed |-> FALSE]
              /\ \A d \in Channels \ {c} : db_channels'[d] = db_channels[d]]_vars

\* C15: a member who was never blacklisted holds a fresh captcha channel with the
\* default time to live
C15_Witness ==
  \E c \in Channels :
    /\ chan[c].live /\ chan[c].started /\ chan[c].running
    /\ chan[c].tries = MaxTries /\ chan[c].ttl = DefaultTtl
    /\ captcha_channels[chan[c].guild][chan[c].member] = c
    /\ db_channels[c].active /\ db_channels[c].ttl = DefaultTtl
    /\ db_blacklist = <<>> /\ chan[c].member \notin main_members

\* C18 (SpecGuilds): a leave handled for a member the gateway guild holds a captcha
\* channel for deletes the text channel, empties the member's place in the registry
\* and adds exactly 1 to the member's counter, or nothing for an operator; a leave of
\* a member without a captcha channel there changes neither the registry, nor the
\* counters, nor the blacklist
C18_LeaveDestroysAndCounts ==
  [][\A g \in Guilds, m \in Members :
       on_member_leave(g, m)
         => IF is_gateway_guild(g) /\ has_captcha_channel(g, m)
            THEN /\ captcha_channels[g][m] \notin channels'
                 /\ captcha_channels' = [captcha_channels EXCEPT ![g][m] = 0]
                 /\ \A n \in Members \ {m} : db_counter'[n] = db_counter[n]
                 /\ IF is_operator(m)
                    THEN db_counter'[m] = db_counter[m]
                    ELSE /\ db_counter'[m].exists
                         /\ db_counter'[m].counter =
                              (IF db_counter[m].exists THEN db_counter[m].counter ELSE 0) + 1
            ELSE /\ captcha_channels' = captcha_channels
                 /\ channels' = channels
                 /\ db_counter' = db_counter
                 /\ db_blacklist' = db_blacklist]_vars

\* the entries of member m in blacklist bl whose end time lies ahead
LiveEntries(bl, m) == Cardinality({i \in 1..Len(bl) : bl[i].mid = m /\ now < bl[i].ends})

\* C16 (SpecSweep): a step of unban_task or of gateway_reset_task removes no blacklist
\* entry whose end time lies ahead (now < ends), and takes no member who has such an
\* entry off the ban list of a gateway guild
C16_SweepOnlyElapsed ==
  [][(unban_task \/ unban_task_resume \/ gateway_reset_task)
       => \A m \in Members :
            /\ LiveEntries(db_blacklist', m) = LiveEntries(db_blacklist, m)
            /\ LiveEntries(db_blacklist, m) > 0
                 => \A g \in Guilds : m \in bans[g] => m \in bans'[g]]_vars

\* the reset-after duration has passed since the counter of member m was last updated
CounterElapsed(m) ==
  db_counter[m].exists /\ db_counter[m].updated_at + ResetAfterDuration <= now

\* C20 (SpecSweep): a pass of gateway_reset_task sets to zero every counter whose
\* last update lies at least the reset-after duration back and leaves every other
\* counter as it is; no step of any other operation lowers a counter
C20_ResetWhenElapsed ==
  [][/\ gateway_reset_task
          => \A m \in Members :
               IF CounterElapsed(m)
               THEN db_counter'[m] = [db_counter[m] EXCEPT !.counter = 0]
               ELSE db_counter'[m] = db_counter[m]
     /\ \A m \in Members :
          db_counter'[m].counter < db_counter[m].counter
            => gateway_reset_task /\ CounterElapsed(m)]_vars

\* C20: a counter that had reached the rejoin limit stands at zero after a pass, the
\* reset-after duration after its last update
C20_Witness ==
  /\ db_counter["m1"].exists /\ db_counter["m1"].counter = 0
  /\ db_counter["m1"].updated_at + ResetAfterDuration <= now
  /\ db_blacklist # <<>>

\* C19 (SpecVerified): the leave of a member who is on the main guild and whose
\* captcha channel on the gateway guild is completed, handled by the gateway guild,
\* changes neither the rejoin counters, nor the blacklist, nor the ban lists
C19_CompletedLeaveNotCounted ==
  [][\A g \in Guilds, m \in Members :
       (/\ on_member_leave(g, m)
        /\ is_gateway_guild(g) /\ has_captcha_channel(g, m)
        /\ chan[captcha_channels[g][m]].completed
        /\ m \in main_members)
         => /\ db_counter' = db_counter
            /\ db_blacklist' = db_blacklist
            /\ bans' = bans]_vars

\* how often entry e stands in blacklist bl
Copies(bl, e) == Cardinality({i \in 1..Len(bl) : bl[i] = e})

\* the entries of the list read at the start of the pass under way that had ended then
ElapsedAtStart ==
  {i \in 1..Len(unban_pass.blacklist) :
     unban_pass.blacklist[i].ends <= unban_pass.now}

\* C17 (SpecSweep): a pass of unban_task works on the list read at its start: each
\* step takes up a later entry of that list that had ended at the start of the pass
\* and leaves out none of them; taking up an entry takes its member off the ban list
\* of every gateway guild, and the step after it removes one copy of that entry from
\* the blacklist and no other entry; when the pass ends no entry that had ended at
\* its start is left
C17_PassRemovesElapsed ==
  [][/\ (unban_task \/ unban_task_resume) /\ unban_pass'.running
          => /\ unban_pass'.i \in ElapsedAtStart'
             /\ unban_pass'.i > unban_pass.i
             /\ \A j \in ElapsedAtStart' : j <= unban_pass.i \/ j >= unban_pass'.i
             /\ unban_pass.running
                  => /\ unban_pass'.blacklist = unban_pass.blacklist
                     /\ unban_pass'.now = unban_pass.now
             /\ \A g \in gateway_guilds :
                  unban_pass'.blacklist[unban_pass'.i].mid \notin bans'[g]
     /\ unban_task_resume
          => /\ \A e \in {db_blacklist[i] : i \in 1..Len(db_blacklist)} :
                  Copies(db_blacklist', e) =
                    IF e = unban_pass.blacklist[unban_pass.i]
                    THEN Copies(db_blacklist, e) - 1 ELSE Copies(db_blacklist, e)
             /\ ~unban_pass'.running
                  => \A j \in ElapsedAtStart :
                       Copies(db_blacklist', unban_pass.blacklist[j]) = 0]_vars

\* the uses of the invites once `code` has been used for a join
UsesAfter(code) == [invites EXCEPT ![code] = @ + 1]

\* a join through invite `code` that the loop over the invites resolves to `code`
ResolvedJoin(m, code) ==
  /\ main_on_member_join(m, code)
  /\ invite_used(UsesAfter(code), invite_cache) = {code}

\* the temporal entry of `code` holds m as its latest use, after what it held before
Collected(m, code) ==
  /\ temporal_cache'[code].exists
  /\ temporal_cache'[code].uses =
       Append(IF temporal_cache[code].exists THEN temporal_cache[code].uses ELSE <<>>, m)

\* C21 (SpecTracker): a join resolved to an invite that is not in the registered
\* invitations leaves a temporal entry for it that holds the earlier uses followed by
\* the member, unless the window of the entry has ended and the entry was evaluated
\* as an attack (the invite revoked); and an entry that exists is removed only by
\* on_invite_delete or by a join when its window has ended, and keeps its window
\* and the uses it holds
C21_EntryCollectsJoins ==
  [][\A code \in Codes :
       /\ \A m \in Members :
            (ResolvedJoin(m, code) /\ code \notin registered_invitations)
              => \/ Collected(m, code)
                 \/ tracker_calls'.revoke[code] = tracker_calls.revoke[code] + 1
       /\ temporal_cache[code].exists
            => IF temporal_cache'[code].exists
               THEN /\ temporal_cache'[code].started = temporal_cache[code].started
                    /\ temporal_cache'[code].finished = temporal_cache[code].finished
                    /\ Len(temporal_cache'[code].uses) >= Len(temporal_cache[code].uses)
                    /\ SubSeq(temporal_cache'[code].uses, 1,
                              Len(temporal_cache[code].uses)) = temporal_cache[code].uses
               ELSE \/ on_invite_delete(code)
                    \/ temporal_cache[code].finished <= now]_vars

\* C23 (SpecTracker): a join resolved to a code that is in the registered invitations
\* leaves the temporal entries as they are and kicks, messages and revokes nothing;
\* a join resolved to a code that is not in them leaves a temporal entry for the code
\* with the member appended, unless the entry was evaluated as an attack at once
C23_RegisteredDecidesTracking ==
  [][\A code \in Codes, m \in Members :
       ResolvedJoin(m, code)
         => IF code \in registered_invitations
            THEN /\ temporal_cache' = temporal_cache
                 /\ tracker_calls'.kick = tracker_calls.kick
                 /\ tracker_calls'.dm = tracker_calls.dm
                 /\ tracker_calls'.revoke = tracker_calls.revoke
            ELSE \/ Collected(m, code)
                 \/ tracker_calls'.revoke[code] > tracker_calls.revoke[code]]_vars

\* C25 (SpecTracker): on a join through invite `code` the loop over the invites
\* finds `code` and no other invite with more uses than cached, and after the join
\* the invite cache holds the current uses of every invite of the main guild
C25_ResolvesConsumedInvite ==
  [][\A code \in Codes, m \in Members :
       main_on_member_join(m, code)
         => /\ invite_used(UsesAfter(code), invite_cache) = {code}
            /\ \A other \in Codes :
                 invites'[other] # -1 => invite_cache'[other] = invites'[other]]_vars

\* C26 (SpecTracker): after on_invite_create the invite cache holds the code with
\* the uses of the invite; after on_invite_delete neither the invite cache nor the
\* temporal entries hold the code, whether or not they held it before; the entries
\* of the other codes stay as they are in both
C26_InviteEventsUpdateCaches ==
  [][\A code \in Codes :
       /\ on_invite_create(code)
            => /\ invite_cache'[code] = invites'[code]
               /\ \A other \in Codes \ {code} :
                    /\ invite_cache'[other] = invite_cache[other]
                    /\ temporal_cache'[other] = temporal_cache[other]
       /\ on_invite_delete(code)
            => /\ invite_cache'[code] = -1
               /\ ~temporal_cache'[code].exists
               /\ \A other \in Codes \ {code} :
                    /\ invite_cache'[other] = invite_cache[other]
                    /\ temporal_cache'[other] = temporal_cache[other]]_vars

\* the blacklist entries of member m
Entries(bl, m) == Cardinality({i \in 1..Len(bl) : bl[i].mid = m})

C27_NoTickAfterDelete ==
  [][\A c \in Channels : (countdown(c) /\ chan[c].has_channel) => c \in channels]_vars

\* C28: a captcha channel that a gateway guild holds for a member is not closed as
\* failed and its text channel exists: when the time elapsed or the tries were used
\* up the entry left _captcha_channels together with the text channel, so handling
\* a member-left event of that member afterwards (the one of the ban, for instance)
\* deletes no text channel and leaves the member's rejoin counter as it was
C28_FailedLeaveNotCounted ==
  [][\A g \in Guilds, m \in Members :
       (/\ on_member_leave(g, m)
        /\ is_gateway_guild(g)
        /\ \E c \in Channels : /\ chan[c].guild = g /\ chan[c].member = m
                               /\ chan[c].has_channel
                               /\ db_channels[c].failed)
         => /\ db_counter' = db_counter
            /\ channels' = channels]_vars

\* C29: when a member who completed a captcha joins the main guild, the member is
\* kicked from every gateway guild that holds a completed captcha channel for them,
\* which puts the member-left event in the queue whose handling deletes the text
\* channel and the entry of _captcha_channels
C29_CompletedJoinKicks ==
  [][\A m \in Members, code \in Codes :
       main_on_member_join(m, code)
         => \A g \in Guilds :
              (/\ is_gateway_guild(g)
               /\ has_captcha_channel(g, m)
               /\ chan[captcha_channels[g][m]].completed
               /\ m \in members[g])
                => /\ m \notin members'[g]
                   /\ \E i \in 1..Len(evq') : evq'[i] = Ev("leave", g, m)]_vars

\* C30: CaptchaModule.load keeps what was persisted: for every document with active
\* true whose member is on the gateway guild (and whose text channel is still there),
\* the gateway guild afterwards holds a started captcha channel of that member with
\* the tries and the ttl of the document, tries = 0 included, its countdown running;
\* no document is inserted; a document with active false gives no captcha channel
C30_LoadKeepsProgress ==
  [][restart =>
       /\ \A c \in Channels :
            LET entry == db_channels[c] IN
            (/\ entry.exists /\ entry.active
             /\ entry.member_id \in members[entry.guild_id]
             /\ c \in channels)
              => /\ captcha_channels'[entry.guild_id][entry.member_id] = c
                 /\ chan'[c].started /\ chan'[c].running
                 /\ chan'[c].tries = entry.tries
                 /\ chan'[c].ttl = entry.ttl
       /\ \A c \in Channels :
            /\ db_channels'[c].exists = db_channels[c].exists
            /\ (db_channels[c].exists /\ ~db_channels[c].active) => ~chan'[c].live]_vars

\* C31: CaptchaModule.load finishes a captcha that was completed before the restart:
\* for a document with stats.completed true whose member is on the gateway guild and
\* not yet on the main guild, the member is kicked from the gateway guild and no
\* countdown runs for that captcha channel
C31_LoadKicksCompleted ==
  [][restart =>
       \A c \in Channels :
         LET entry == db_channels[c] IN
         (/\ entry.exists /\ entry.completed
          /\ entry.member_id \in members[entry.guild_id]
          /\ entry.member_id \notin main_members)
           => /\ entry.member_id \notin members'[entry.guild_id]
              /\ ~chan'[c].running]_vars

\* C32: CaptchaModule.load gives up a captcha whose member has left the gateway
\* guild: the document with active true becomes inactive without being counted as
\* completed (stats.completed keeps its value), the text channel is deleted if it is
\* still there, and no captcha channel is started or held for the document
C32_LoadAbandonsDeparted ==
  [][restart =>
       \A c \in Channels :
         LET entry == db_channels[c] IN
         (/\ entry.exists /\ entry.active
          /\ entry.member_id \notin members[entry.guild_id])
           => /\ ~db_channels'[c].active
              /\ db_channels'[c].completed = entry.completed
              /\ c \notin channels'
              /\ ~chan'[c].live
              /\ captcha_channels'[entry.guild_id][entry.member_id] # c]_vars

\* C33: every way a captcha ends (the answer matched, no try left, the time elapsed)
\* sends its message to the text channel of the captcha in the step that ends it,
\* and a text channel of an ended captcha is deleted only after that message
C33_EndIsExplained ==
  [][\A c \in Channels :
       /\ (on_message_invite(c) /\ c \in channels) => c \in calls'.explained
       /\ (on_message_incorrect(c) /\ chan'[c].tries = 0 /\ c \in channels)
            => c \in calls'.explained
       /\ (countdown(c) /\ chan[c].ttl > 0 /\ chan'[c].ttl <= 0 /\ c \in channels)
            => c \in calls'.explained
       /\ (/\ c \in channels /\ c \notin channels'
           /\ (chan[c].completed \/ chan[c].tries = 0 \/ chan[c].ttl <= 0))
            => c \in calls.explained]_vars

\* C34 (SpecRouting): a member-joined or member-left event is handled by the gateway
\* guild of the event only: the captcha channels of every other guild stay as they
\* are, and an event of a guild that is no gateway guild (and not the main guild)
\* changes no captcha channel, document, counter, blacklist entry, ban or text
\* channel and nothing the tracker keeps
C34_EventsRouted ==
  [][\A g \in Guilds, m \in Members :
       (on_member_join(g, m) \/ on_member_leave(g, m))
         => /\ \A h \in Guilds \ {g} :
                 /\ captcha_channels'[h] = captcha_channels[h]
                 /\ members'[h] = members[h]
                 /\ bans'[h] = bans[h]
            /\ \A c \in Channels :
                 (chan[c].live /\ chan[c].guild # g) => chan'[c] = chan[c]
            /\ g \notin gateway_guilds
                 => UNCHANGED <<captcha_channels, chan, channels, db_channels,
                                db_counter, db_blacklist, bans, members, calls,
                                tracker_vars>>]_vars

\* a join event of g2, which is no gateway guild, was handled and left no captcha
\* channel, while g1 holds a started captcha channel for one of its members
C34_Witness ==
  /\ "g2" \notin gateway_guilds
  /\ \E m \in Members :
       /\ m \in members["g2"]
       /\ \A i \in 1..Len(evq) : evq[i] # Ev("join", "g2", m)
       /\ captcha_channels["g2"][m] = 0
  /\ \E m \in Members :
       /\ has_captcha_channel("g1", m)
       /\ chan[captcha_channels["g1"][m]].started

\* C35: load creates a gateway guild when there is none or when every one it has
\* is at the member cap, the creation never takes the bot over 10 guilds, and when
\* a guild is needed with the bot on 10 guilds or more, the critical error is
\* raised and nothing is created
C35_LoadEnsuresCapacity ==
  [][restart =>
       LET needed == \A g \in valid_guild_ids : get_user_count(g) >= UserCap IN
       /\ (needed /\ bot_guild_count < GuildCeiling) => pool_calls'.created # {}
       /\ pool_calls'.created # {}
            => Cardinality(bot_guilds') + other_guilds' <= GuildCeiling
       /\ (needed /\ bot_guild_count >= GuildCeiling)
            => /\ pool_calls'.critical
               /\ pool_calls'.created = {}
               /\ bot_guilds' = bot_guilds]_vars

\* C36: get_invitation_to_gateway gives an invite only of a gateway guild with fewer
\* than 500 members, and gives one whenever some gateway guild has fewer than 500
\* members and a permanent invite
C36_InvitationUnderCap ==
  [][get_invitation_to_gateway =>
       /\ pool_calls'.referral \in Guilds
            => /\ pool_calls'.referral \in gateway_guilds
               /\ get_user_count(pool_calls'.referral) < UserCap
       /\ (\E g \in gateway_guilds :
             /\ g \in bot_guilds
             /\ get_user_count(g) < UserCap
             /\ permanent_invite[g])
            => pool_calls'.referral \in Guilds]_vars

\* C37: delete answers with a boolean; refused, it answers False and the guild is
\* still a gateway guild and still has its document; accepted, the guild is gone
\* from both; the documents keep naming just the gateway guilds that exist
C37_DeleteKeepsRecords ==
  [][\A g \in Guilds :
       delete(g) =>
         /\ pool_calls'.delete \in {"true", "false"}
         /\ pool_calls'.delete = "false"
              => /\ g \in gateway_guilds' /\ g \in db_guilds' /\ g \in bot_guilds'
         /\ g \notin bot_guilds'
              => /\ pool_calls'.delete = "true"
                 /\ g \notin gateway_guilds' /\ g \notin db_guilds'
         /\ db_guilds = {h \in gateway_guilds : h \in bot_guilds}
              => db_guilds' = {h \in gateway_guilds' : h \in bot_guilds'}]_vars

\* C39 (SpecPresent): the join of a member who is on the main guild, handled by a
\* gateway guild, removes the member from the gateway guild and registers no captcha
\* channel when the member is no operator, and leaves an operator on the guild
\* (unless the operator had a blacklist document and was banned on joining); load
\* does the same for the members it finds on a gateway guild
C39_PresentMemberKicked ==
  [][/\ \A g \in Guilds, m \in Members :
          (on_member_join(g, m) /\ g \in gateway_guilds /\ m \in main_members)
            => IF m \notin operators
               THEN /\ m \notin members'[g]
                    /\ captcha_channels' = captcha_channels
                    /\ chan' = chan
               ELSE (m \in members[g] /\ ~get_blacklisted_member_info(db_blacklist, m))
                      => m \in members'[g]
     /\ restart
          => \A g \in Guilds, m \in Members :
               (g \in gateway_guilds' /\ m \in main_members /\ m \in members[g])
                 => IF m \notin operators
                    THEN /\ m \notin members'[g]
                         /\ captcha_channels'[g][m] = 0
                    ELSE (\A c \in Channels :
                            ~(/\ db_channels[c].exists /\ db_channels[c].completed
                              /\ db_channels[c].guild_id = g
                              /\ db_channels[c].member_id = m))
                           => m \in members'[g]]_vars

\* C39: a member of the main guild who is no operator has joined a gateway guild, the
\* join was handled and the member is off the guild again without a captcha channel,
\* while an operator who is on the main guild too has joined and stayed
C39_Witness ==
  /\ \E g \in Guilds, m \in Members :
       /\ m \in main_members /\ m \notin operators
       /\ m \notin members[g] /\ m \notin bans[g]
       /\ captcha_channels[g][m] = 0
       /\ evq # <<>> /\ Head(evq) = Ev("leave", g, m)
       /\ \A c \in Channels : ~(db_channels[c].exists /\ db_channels[c].member_id = m)
  /\ \E g \in Guilds, m \in Members :
       /\ m \in main_members /\ m \in operators
       /\ m \in members[g] /\ <<g, m>> \in calls.op_role
       /\ captcha_channels[g][m] = 0

====
